---- MODULE Spec2Model ----
(***************************************************************************)
(* Entitlement synchronisation of the account portal                       *)
(* (src/src/routes/account.js): the Stripe checkout, unsubscribe and       *)
(* webhook routes, the PNID document they update and the Stripe objects    *)
(* they create.  Every route is an async handler; one action of the model  *)
(* is one awaited call (its effect at the provider or the database)        *)
(* together with the synchronous code that runs when it settles, so        *)
(* handlers of different requests interleave at their awaits.              *)
(* util.handleStripeEvent is not part of the sources at hand; it is        *)
(* modelled from section 4.3 of the specification.                         *)
(***************************************************************************)
EXTENDS Integers, Sequences, FiniteSets, TLC

\* ---- bounds ------------------------------------------------------------
MaxCustomers == 3      \* Stripe customers that can exist (all users)
MaxTimestamp == 2      \* event.created ranges over 1..MaxTimestamp
MaxAccess == 2         \* access_level ranges over 0..MaxAccess
MaxRequests == 2       \* requests the service receives in one run

\* ---- the values of the model --------------------------------------------
null == "null"
Pid == 1               \* the logged-in user (account.pid)
OtherPid == Pid + 1          \* another user, owner of a Stripe customer
NoCustomer == 0        \* customer_id not set; customers are numbered 1..
Checkouts == {"k1", "k2"}
Unsubs == {"u1"}
Hooks == {"w1"}
Procs == Checkouts \cup Unsubs \cup Hooks
Prices == {"price_1", "price_2"}
Subscriptions == {"sub_A", "sub_B"}
EventTypes == {"created", "updated", "deleted"}
Statuses == {"active", "canceled"}

TierLevel(price) == IF price = "price_1" THEN 1 ELSE 2
TierName(price) == IF price = "price_1" THEN "Mario" ELSE "Super Mario"

VARIABLES
    pnid,        \* the PNID document of Pid (database.PNID)
    customers,   \* Stripe customers: customers[i] is metadata.pnid_pid of customer i
    sessions,    \* checkout sessions created at Stripe
    delCalls,    \* subscription ids passed to stripe.subscriptions.del
    pc,          \* position of each request handler
    resp,        \* response sent by each handler, "none" before
    kloc,        \* locals of the checkout handlers
    uloc,        \* locals of the unsubscribe handlers
    wloc,        \* locals of the webhook handlers
    requests     \* number of requests received so far

vars == <<pnid, customers, sessions, delCalls, pc, resp, kloc, uloc, wloc,
          requests>>

NoEvent == [type |-> "none", status |-> "none", customer |-> NoCustomer,
            subscription |-> null, price |-> null, created |-> 0]
\* subscription events: created and updated carry a status, deleted is
\* always canceled; the plan of an event only matters when it activates
Events ==
    {e \in [type : EventTypes, status : Statuses, customer : 1..MaxCustomers,
            subscription : Subscriptions, price : Prices,
            created : 1..MaxTimestamp] :
        /\ e.type = "deleted" => e.status = "canceled"
        /\ e.type = "created" => e.status = "active"
        /\ e.status = "canceled" => e.price = "price_1"}

KInit == [priceId |-> null, customer |-> NoCustomer]
UInit == [subscriptionId |-> null, tierName |-> null, access_level |-> 0,
          canceled |-> FALSE]
WInit == [event |-> NoEvent, signed |-> FALSE, handled |-> FALSE]

Unsubscribed(level) ==
    [access_level |-> level, customer_id |-> NoCustomer,
     subscription_id |-> null, price_id |-> null, tier_name |-> null,
     tier_level |-> 0, latest_webhook_timestamp |-> 0]

Subscribed(level, cid, sub, price, ts) ==
    [access_level |-> level, customer_id |-> cid,
     subscription_id |-> sub, price_id |-> price, tier_name |-> TierName(price),
     tier_level |-> TierLevel(price), latest_webhook_timestamp |-> ts]

\* A new account (billing fields empty, no Stripe customer of its own), or an
\* account that subscribed earlier through customer 2.
Init ==
    /\ \E level \in 0..MaxAccess :
          \/ /\ pnid = Unsubscribed(level)
             /\ customers = <<OtherPid>>
          \/ /\ pnid = Subscribed(level, 2, "sub_A", "price_1", 1)
             /\ customers = <<OtherPid, Pid>>
    /\ sessions = {}
    /\ delCalls = {}
    /\ pc = [p \in Procs |-> "idle"]
    /\ resp = [p \in Procs |-> "none"]
    /\ kloc = [k \in Checkouts |-> KInit]
    /\ uloc = [u \in Unsubs |-> UInit]
    /\ wloc = [w \in Hooks |-> WInit]
    /\ requests = 0

\* handler p is free to serve the next request
Ready(p) == pc[p] \in {"idle", "done"} /\ requests < MaxRequests
Accept == requests' = requests + 1

Goto(p, label) == pc' = [pc EXCEPT ![p] = label]
Respond(p, r) == resp' = [resp EXCEPT ![p] = r]

\* ---- POST /stripe/checkout/:priceId ------------------------------------

\* variant: the query names a metadata key no customer carries
SearchCustomers_NoMatch(pid) == {}

\* stripe.customers.search({ query: metadata['pnid_pid']:'<pid>' })
SearchCustomers(pid) == {i \in 1..Len(customers) : customers[i] = pid}

\* variant: the checkout update also clears the tier snapshot
CheckoutSet_ClearsTier(doc, cid) ==
    [doc EXCEPT !.customer_id = cid, !.latest_webhook_timestamp = 0,
                !.subscription_id = null, !.tier_level = 0]

\* $set of the updateOne of the checkout route
CheckoutSet(doc, cid) ==
    [doc EXCEPT !.customer_id = cid, !.latest_webhook_timestamp = 0]

\* variant: the staff threshold is off by one
IsStaff_Above(level) == level > 2

\* pnid.get('access_level') >= 2
IsStaff(level) == level >= 2

\* the session passed to stripe.checkout.sessions.create
NewSession(cid, priceId) ==
    [customer |-> cid, mode |-> "subscription",
     line_items |-> <<[price |-> priceId, quantity |-> 1]>>]

\* the request arrives; the handler issues the customer search
CheckoutStart(k) ==
    /\ Ready(k)
    /\ Accept
    /\ \E priceId \in Prices :
          kloc' = [kloc EXCEPT ![k] = [priceId |-> priceId, customer |-> NoCustomer]]
    /\ Goto(k, "search")
    /\ Respond(k, "none")
    /\ UNCHANGED <<pnid, customers, sessions, delCalls, uloc, wloc>>

\* the search settles: an existing customer is taken, or a create is issued
CheckoutSearch(k) ==
    /\ pc[k] = "search"
    /\ LET searchResults == SearchCustomers(Pid) IN
          IF searchResults # {}
          THEN /\ \E c \in searchResults :
                     kloc' = [kloc EXCEPT ![k].customer = c]
               /\ Goto(k, "update")
          ELSE /\ Goto(k, "create")
               /\ UNCHANGED kloc
    /\ UNCHANGED <<pnid, customers, sessions, delCalls, resp, uloc, wloc>>
    /\ UNCHANGED requests

\* stripe.customers.create({ email, metadata: { pnid_pid: pid } })
CheckoutCreate(k) ==
    /\ pc[k] = "create"
    /\ Len(customers) < MaxCustomers
    /\ customers' = Append(customers, Pid)
    /\ kloc' = [kloc EXCEPT ![k].customer = Len(customers) + 1]
    /\ Goto(k, "update")
    /\ UNCHANGED <<pnid, sessions, delCalls, resp, uloc, wloc>>
    /\ UNCHANGED requests

\* database.PNID.updateOne({ pid }, { $set: ... }, { upsert: true })
CheckoutUpdate(k) ==
    /\ pc[k] = "update"
    /\ pnid' = CheckoutSet(pnid, kloc[k].customer)
    /\ Goto(k, "find")
    /\ UNCHANGED <<customers, sessions, delCalls, resp, kloc, uloc, wloc>>
    /\ UNCHANGED requests

\* database.PNID.findOne({ pid }) and the staff check on its result
CheckoutFind(k) ==
    /\ pc[k] = "find"
    /\ IF IsStaff(pnid.access_level)
       THEN /\ Respond(k, "staff_error")
            /\ Goto(k, "done")
            /\ kloc' = [kloc EXCEPT ![k] = KInit]
       ELSE /\ Goto(k, "session")
            /\ UNCHANGED <<resp, kloc>>
    /\ UNCHANGED <<pnid, customers, sessions, delCalls, uloc, wloc>>
    /\ UNCHANGED requests

\* stripe.checkout.sessions.create resolves: redirect(303, session.url)
CheckoutSession(k) ==
    /\ pc[k] = "session"
    /\ sessions' = sessions \cup {NewSession(kloc[k].customer, kloc[k].priceId)}
    /\ Respond(k, "session_url")
    /\ Goto(k, "done")
    /\ kloc' = [kloc EXCEPT ![k] = KInit]
    /\ UNCHANGED <<pnid, customers, delCalls, uloc, wloc>>
    /\ UNCHANGED requests

\* stripe.checkout.sessions.create rejects: the catch block answers
CheckoutSessionError(k) ==
    /\ pc[k] = "session"
    /\ Respond(k, "session_error")
    /\ Goto(k, "done")
    /\ kloc' = [kloc EXCEPT ![k] = KInit]
    /\ UNCHANGED <<pnid, customers, sessions, delCalls, uloc, wloc>>
    /\ UNCHANGED requests

\* an await outside the try block rejects: the handler ends without a response
CheckoutReject(k) ==
    /\ pc[k] \in {"search", "create", "update", "find"}
    /\ Goto(k, "hung")
    /\ UNCHANGED <<pnid, customers, sessions, delCalls, resp, kloc, uloc, wloc>>
    /\ UNCHANGED requests

Checkout(k) ==
    \/ CheckoutStart(k)
    \/ CheckoutSearch(k)
    \/ CheckoutCreate(k)
    \/ CheckoutUpdate(k)
    \/ CheckoutFind(k)
    \/ CheckoutSession(k)
    \/ CheckoutSessionError(k)
    \/ CheckoutReject(k)

\* ---- POST /stripe/unsubscribe ------------------------------------------

\* variant: the cancellation is attempted whatever the subscription id
HasSubscription_Always(subscriptionId) == TRUE

\* if (subscriptionId)
HasSubscription(subscriptionId) == subscriptionId # null

\* variant: tier_level is left out of updateData
UnsubscribeUpdateData_KeepsLevel(doc, level) ==
    [doc EXCEPT !.subscription_id = null,
                !.price_id = null,
                !.tier_name = null,
                !.access_level = IF level < 2 THEN 0 ELSE @]

\* variant: price_id is left out of updateData
UnsubscribeUpdateData_KeepsPrice(doc, level) ==
    [doc EXCEPT !.subscription_id = null,
                !.tier_level = 0,
                !.tier_name = null,
                !.access_level = IF level < 2 THEN 0 ELSE @]

\* variant: access_level is reset without the staff fail-safe
UnsubscribeUpdateData_NoFailSafe(doc, level) ==
    [doc EXCEPT !.subscription_id = null,
                !.price_id = null,
                !.tier_level = 0,
                !.tier_name = null,
                !.access_level = 0]

\* updateData of the unsubscribe route, applied with $set; level is the
\* access_level of the document the request was dispatched with
UnsubscribeUpdateData(doc, level) ==
    [doc EXCEPT !.subscription_id = null,
                !.price_id = null,
                !.tier_level = 0,
                !.tier_name = null,
                !.access_level = IF level < 2 THEN 0 ELSE @]

\* the request arrives with request.pnid; without a subscription the handler
\* answers at once, otherwise it issues stripe.subscriptions.del
UnsubscribeStart(u) ==
    /\ Ready(u)
    /\ Accept
    /\ uloc' = [uloc EXCEPT ![u] = [subscriptionId |-> pnid.subscription_id,
                                    tierName |-> pnid.tier_name,
                                    access_level |-> pnid.access_level,
                                    canceled |-> FALSE]]
    /\ IF HasSubscription(pnid.subscription_id)
       THEN /\ delCalls' = delCalls \cup {pnid.subscription_id}
            /\ Goto(u, "del")
            /\ Respond(u, "none")
       ELSE /\ Respond(u, "unsubscribed")
            /\ Goto(u, "done")
            /\ UNCHANGED delCalls
    /\ UNCHANGED <<pnid, customers, sessions, kloc, wloc>>

\* stripe.subscriptions.del resolves: the handler issues the update
UnsubscribeDel(u) ==
    /\ pc[u] = "del"
    /\ uloc' = [uloc EXCEPT ![u].canceled = TRUE]
    /\ Goto(u, "update")
    /\ UNCHANGED <<pnid, customers, sessions, delCalls, resp, kloc, wloc>>
    /\ UNCHANGED requests

\* variant: the catch block does not return, the success answer follows
UnsubscribeDelError_FallsThrough(u) ==
    /\ pc[u] = "del"
    /\ Respond(u, "unsubscribed")
    /\ Goto(u, "done")
    /\ UNCHANGED <<pnid, customers, sessions, delCalls, kloc, uloc, wloc>>
    /\ UNCHANGED requests

\* stripe.subscriptions.del rejects: the catch block answers
UnsubscribeDelError(u) ==
    /\ pc[u] = "del"
    /\ Respond(u, "cancel_error")
    /\ Goto(u, "done")
    /\ UNCHANGED <<pnid, customers, sessions, delCalls, kloc, uloc, wloc>>
    /\ UNCHANGED requests

\* database.PNID.updateOne({ pid }, { $set: updateData }) resolves
UnsubscribeUpdate(u) ==
    /\ pc[u] = "update"
    /\ pnid' = UnsubscribeUpdateData(pnid, uloc[u].access_level)
    /\ Respond(u, "unsubscribed")
    /\ Goto(u, "done")
    /\ UNCHANGED <<customers, sessions, delCalls, kloc, uloc, wloc>>
    /\ UNCHANGED requests

\* the updateOne rejects inside the try block: the catch block answers
UnsubscribeUpdateError(u) ==
    /\ pc[u] = "update"
    /\ Respond(u, "cancel_error")
    /\ Goto(u, "done")
    /\ UNCHANGED <<pnid, customers, sessions, delCalls, kloc, uloc, wloc>>
    /\ UNCHANGED requests

Unsubscribe(u) ==
    \/ UnsubscribeStart(u)
    \/ UnsubscribeDel(u)
    \/ UnsubscribeDelError(u)
    \/ UnsubscribeUpdate(u)
    \/ UnsubscribeUpdateError(u)

\* ---- POST /stripe/webhook ----------------------------------------------

\* variant: the signature is not checked
ConstructEventOk_Unchecked(signed) == TRUE

\* stripe.webhooks.constructEvent returns the event when the payload was
\* signed with the webhook secret and throws otherwise
ConstructEventOk(signed) == signed

\* the Entitlement Reconciler (util.handleStripeEvent), section 4.3
IsActivation(e) == e.type \in {"created", "updated"} /\ e.status = "active"

HandleStripeEvent(doc, e) ==
    IF e.customer # doc.customer_id THEN doc
    ELSE IF e.created <= doc.latest_webhook_timestamp THEN doc
    ELSE IF IsActivation(e)
    THEN IF doc.access_level < 2
         THEN [doc EXCEPT !.subscription_id = e.subscription,
                          !.price_id = e.price,
                          !.tier_level = TierLevel(e.price),
                          !.tier_name = TierName(e.price),
                          !.latest_webhook_timestamp = e.created]
         ELSE doc
    ELSE [doc EXCEPT !.subscription_id = null,
                     !.price_id = null,
                     !.tier_level = 0,
                     !.tier_name = null,
                     !.access_level = IF @ < 2 THEN 0 ELSE @,
                     !.latest_webhook_timestamp = e.created]

\* the request arrives: constructEvent runs synchronously; on a bad
\* signature the handler answers 400, otherwise it calls the reconciler
WebhookStart(w) ==
    /\ Ready(w)
    /\ Accept
    /\ \E e \in Events, signed \in BOOLEAN :
          IF ConstructEventOk(signed)
          THEN /\ wloc' = [wloc EXCEPT ![w] = [event |-> e, signed |-> signed,
                                               handled |-> FALSE]]
               /\ Goto(w, "handle")
               /\ Respond(w, "none")
          ELSE /\ wloc' = [wloc EXCEPT ![w] = [event |-> NoEvent, signed |-> signed,
                                               handled |-> FALSE]]
               /\ Respond(w, "400")
               /\ Goto(w, "done")
    /\ UNCHANGED <<pnid, customers, sessions, delCalls, kloc, uloc>>

\* util.handleStripeEvent resolves; response.json({ received: true })
WebhookHandle(w) ==
    /\ pc[w] = "handle"
    /\ pnid' = HandleStripeEvent(pnid, wloc[w].event)
    /\ wloc' = [wloc EXCEPT ![w].event = NoEvent, ![w].handled = TRUE]
    /\ Respond(w, "received")
    /\ Goto(w, "done")
    /\ UNCHANGED <<customers, sessions, delCalls, kloc, uloc>>
    /\ UNCHANGED requests

\* util.handleStripeEvent rejects: nothing catches it, no response is sent
WebhookHandleReject(w) ==
    /\ pc[w] = "handle"
    /\ Goto(w, "hung")
    /\ UNCHANGED <<pnid, customers, sessions, delCalls, resp, kloc, uloc, wloc>>
    /\ UNCHANGED requests

Webhook(w) ==
    \/ WebhookStart(w)
    \/ WebhookHandle(w)
    \/ WebhookHandleReject(w)

\* ---- the service --------------------------------------------------------

Next ==
    \/ \E k \in Checkouts : Checkout(k)
    \/ \E u \in Unsubs : Unsubscribe(u)
    \/ \E w \in Hooks : Webhook(w)

Spec == Init /\ [][Next]_vars

\* a handler between the arrival of its request and the end of the request
InFlight(p) == pc[p] \notin {"idle", "done", "hung"}

\* the service when the checkout requests of the user do not overlap
SeqNext ==
    \/ \E k \in Checkouts :
          /\ \A j \in Checkouts \ {k} : ~InFlight(j)
          /\ Checkout(k)
    \/ \E u \in Unsubs : Unsubscribe(u)
    \/ \E w \in Hooks : Webhook(w)

SeqSpec == Init /\ [][SeqNext]_vars

\* every awaited call settles: it resolves or rejects
Settle(p) ==
    /\ InFlight(p)
    /\ \/ p \in Checkouts /\ Checkout(p)
       \/ p \in Unsubs /\ Unsubscribe(p)
       \/ p \in Hooks /\ Webhook(p)

FairSpec == Spec /\ \A p \in Procs : WF_vars(Settle(p))

TypeOK ==
    /\ pnid.access_level \in 0..MaxAccess
    /\ pnid.customer_id \in 0..MaxCustomers
    /\ pnid.subscription_id \in Subscriptions \cup {null}
    /\ pnid.price_id \in Prices \cup {null}
    /\ pnid.tier_level \in 0..2
    /\ pnid.latest_webhook_timestamp \in 0..MaxTimestamp
    /\ Len(customers) <= MaxCustomers
    /\ delCalls \subseteq Subscriptions

\* ---- properties ---------------------------------------------------------

CheckoutStep == \E k \in Checkouts : Checkout(k)
UnsubscribeStep == \E u \in Unsubs : Unsubscribe(u)
CustomersOf(pid) == {i \in 1..Len(customers) : customers[i] = pid}

\* C1: in every reachable state of the account, subscription_id is set
\* exactly when tier_level is positive (I4), whatever checkout requests,
\* unsubscribe requests and billing events have run.
C1_SubscriptionIffTier ==
    (pnid.subscription_id # null) <=> (pnid.tier_level > 0)

\* an unsubscribe cleared sub_A and a later event recorded sub_B
C1_Witness ==
    \E u \in Unsubs :
        /\ resp[u] = "unsubscribed"
        /\ uloc[u].subscriptionId = "sub_A"
        /\ pnid.subscription_id = "sub_B"
        /\ pnid.tier_level > 0

\* C2: for a staff account (access_level >= 2) no checkout session exists
\* and no checkout request was answered with the hosted checkout URL.
C2_StaffNeverCheckedOut ==
    pnid.access_level >= 2 =>
        /\ sessions = {}
        /\ \A k \in Checkouts : resp[k] # "session_url"

\* a checkout of a staff account was answered with the policy error
C2_Witness ==
    /\ pnid.access_level >= 2
    /\ \E k \in Checkouts : pc[k] = "done" /\ resp[k] = "staff_error"

\* C3: no step of a checkout request of a staff account changes the account
\* document or the customers of the provider.
C3_StaffCheckoutMutatesNothing ==
    [][(pnid.access_level >= 2 /\ CheckoutStep)
          => (pnid' = pnid /\ customers' = customers)]_vars

\* C4: no step of a checkout request changes subscription_id, price_id,
\* tier_name, tier_level or access_level.
C4_CheckoutKeepsTier ==
    [][CheckoutStep
          => /\ pnid'.subscription_id = pnid.subscription_id
             /\ pnid'.price_id = pnid.price_id
             /\ pnid'.tier_name = pnid.tier_name
             /\ pnid'.tier_level = pnid.tier_level
             /\ pnid'.access_level = pnid.access_level]_vars

\* a checkout of a subscribed account got its session
C4_Witness ==
    /\ pnid.subscription_id # null
    /\ \E k \in Checkouts : pc[k] = "done" /\ resp[k] = "session_url"

\* C5: an unsubscribe request that arrives while subscription_id is null is
\* answered with the success outcome at once, passes nothing to
\* stripe.subscriptions.del and leaves the account document as it is.
C5_UnsubscribeWithoutSubscription ==
    [][\A u \in Unsubs :
          (UnsubscribeStart(u) /\ pnid.subscription_id = null)
             => /\ pc'[u] = "done"
                /\ resp'[u] = "unsubscribed"
                /\ delCalls' = delCalls
                /\ pnid' = pnid]_vars

\* an unsubscribe without a subscription was answered
C5_Witness ==
    \E u \in Unsubs :
        /\ pc[u] = "done"
        /\ uloc[u].subscriptionId = null
        /\ resp[u] = "unsubscribed"
        /\ delCalls = {}

\* C6: when the cancellation call of an unsubscribe request fails, the step
\* that handles the failure changes no field of the account and ends the
\* request with the error outcome.
C6_CancelFailureKeepsAccount ==
    [][\A u \in Unsubs :
          (pc[u] = "del" /\ pc'[u] \notin {"del", "update"})
             => /\ pnid' = pnid
                /\ pc'[u] = "done"
                /\ resp'[u] = "cancel_error"]_vars

\* a cancellation failed and the account is still subscribed
C6_Witness ==
    \E u \in Unsubs :
        /\ pc[u] = "done"
        /\ uloc[u].subscriptionId # null
        /\ ~uloc[u].canceled
        /\ resp[u] = "cancel_error"
        /\ pnid.subscription_id = uloc[u].subscriptionId

C8_UnsubscribeKeepsStaff ==
    [][(pnid.access_level >= 2 /\ UnsubscribeStep)
          => pnid'.access_level = pnid.access_level]_vars

\* a staff member with a subscription unsubscribed
C8_Witness ==
    \E u \in Unsubs :
        /\ pc[u] = "done"
        /\ resp[u] = "unsubscribed"
        /\ uloc[u].canceled
        /\ uloc[u].access_level >= 2
        /\ pnid.access_level >= 2
        /\ pnid.subscription_id = null

\* C9: a webhook request is acknowledged only when its payload was signed
\* and the reconciler has processed its event; a request whose signature
\* does not verify is answered 400, never reaches the reconciler and
\* changes no account.
C9_AcknowledgedOnlyIfVerified ==
    /\ [](\A w \in Hooks :
            /\ resp[w] = "received" => (wloc[w].signed /\ wloc[w].handled)
            /\ (pc[w] # "idle" /\ ~wloc[w].signed)
                  => (pc[w] = "done" /\ resp[w] = "400" /\ ~wloc[w].handled))
    /\ [][\A w \in Hooks :
            (WebhookStart(w) /\ ~wloc'[w].signed) => pnid' = pnid]_vars

\* a webhook request with a bad signature was answered 400
C9_Witness ==
    \E w \in Hooks :
        /\ pc[w] = "done"
        /\ ~wloc[w].signed
        /\ resp[w] = "400"

\* C10: the provider never holds two customers tagged with the pid of the
\* user, however two checkout requests of that user interleave.
C10_NoDuplicateCustomer ==
    Cardinality(CustomersOf(Pid)) <= 1

\* C11: while the checkout requests of the user do not overlap, the provider
\* holds at most one customer tagged with the pid of the user, and a customer
\* is created only when none is tagged with it.
C11_SequentialNoDuplicate ==
    /\ [](Cardinality(CustomersOf(Pid)) <= 1)
    /\ [][customers' # customers => CustomersOf(Pid) = {}]_vars

\* two checkouts in a row of a new account: one customer, stored on the account
C11_Witness ==
    /\ Cardinality(CustomersOf(Pid)) = 1
    /\ pnid.customer_id \in CustomersOf(Pid)
    /\ pnid.subscription_id = null
    /\ \A k \in Checkouts : pc[k] = "done" /\ resp[k] = "session_url"

\* C12: no step stores a latest_webhook_timestamp smaller than the one it
\* replaces.
C12_WatermarkMovesForward ==
    [][pnid'.latest_webhook_timestamp >= pnid.latest_webhook_timestamp]_vars

\* C13: once customer_id is set, no step changes it.
C13_CustomerIdSetOnce ==
    [][pnid.customer_id # NoCustomer
          => pnid'.customer_id = pnid.customer_id]_vars

\* C14: the update of an unsubscribe request is applied only to the account
\* the request read: the subscription_id and access_level of the document
\* are still the ones the request was dispatched with.
C14_UnsubscribeWritesOnFreshSnapshot ==
    [][\A u \in Unsubs :
          (pc[u] = "update" /\ resp'[u] = "unsubscribed")
             => /\ pnid.subscription_id = uloc[u].subscriptionId
                /\ pnid.access_level = uloc[u].access_level]_vars

\* C15: once an unsubscribe request has cancelled a subscription and
\* succeeded, a subscription.deleted event of the account's customer for
\* that subscription is not newer than the watermark and its processing
\* leaves the account document as it is.
C15_DeletedEventAlreadyApplied ==
    [][\A w \in Hooks, u \in Unsubs :
          (/\ pc[w] = "handle" /\ pc'[w] = "done"
           /\ wloc[w].event.type = "deleted"
           /\ wloc[w].event.customer = pnid.customer_id
           /\ pc[u] = "done" /\ resp[u] = "unsubscribed" /\ uloc[u].canceled
           /\ wloc[w].event.subscription = uloc[u].subscriptionId)
             => /\ wloc[w].event.created <= pnid.latest_webhook_timestamp
                /\ pnid' = pnid]_vars

\* C16: when no checkout request is in flight, a customer of the provider
\* tagged with the pid of the user is the one stored on the account.
C16_NoPartialResolution ==
    (\A k \in Checkouts : ~InFlight(k))
        => (CustomersOf(Pid) # {} => pnid.customer_id \in CustomersOf(Pid))

\* C17: every checkout session is in subscription mode with one line item of
\* quantity 1, and the step that creates one creates it for the requested
\* plan and for the customer_id the account holds at that moment.
C17_SessionForStoredCustomer ==
    /\ [](\A s \in sessions :
            /\ s.mode = "subscription"
            /\ Len(s.line_items) = 1
            /\ s.line_items[1].quantity = 1)
    /\ [][\A k \in Checkouts :
            (pc[k] = "session" /\ resp'[k] = "session_url")
               => /\ kloc[k].customer = pnid.customer_id
                  /\ [customer |-> pnid.customer_id, mode |-> "subscription",
                      line_items |-> <<[price |-> kloc[k].priceId,
                                        quantity |-> 1]>>] \in sessions']_vars

\* C18: every request that has arrived is eventually answered, given that
\* every awaited call settles.
C18_EveryRequestAnswered ==
    \A p \in Procs : InFlight(p) ~> (pc[p] = "done" /\ resp[p] # "none")

====
